---------------------------- MODULE Spec2Model ----------------------------
(***************************************************************************)
(* The JSON-RPC middleware chain of the telemetry crate: RequestValidator, *)
(* JsonRpcMethodCounter and JsonRpcMethodHistogram wrapped around an inner *)
(* handler.  Every request is an independently scheduled future; a layer's *)
(* future suspends while it drains the body (to_bytes(..).await) and while *)
(* it awaits the inner service (inner.call(..).await).                     *)
(***************************************************************************)
EXTENDS Integers, Sequences, FiniteSets, Bags, TLC

\* ------------------------------------------------------------------ bounds
NumRequests == 2
MaxLayers == 3
MaxChunks == 2

Requests == 1..NumRequests

\* Option<T>: None is the empty tuple, Some(x) the one-element tuple.
NoneV == <<>>
Some(x) == <<x>>
IsSome(o) == o # <<>>
Unwrap(o) == o[1]

\* --------------------------------------------------------- strings, bytes
\* A string is a sequence of characters; str::to_lowercase maps it char-wise.
to_lowercase_char(c) ==
  CASE c = "B" -> "b"
    [] c = "E" -> "e"
    [] c = "N" -> "n"
    [] OTHER -> c

to_lowercase(s) == [k \in 1..Len(s) |-> to_lowercase_char(s[k])]

\* JSON-RPC method names the clients send.
eth_blockNumber ==
  << "e", "t", "h", "_", "b", "l", "o", "c", "k", "N", "u", "m", "b", "e", "r" >>

Methods == { <<"e", "B">>, <<"e", "b">>, <<"n">>, eth_blockNumber }

Labels == { to_lowercase(m) : m \in Methods }

\* The body bytes, as the sequence of JSON tokens they spell.
Tok(key, kind, val) == [key |-> key, kind |-> kind, val |-> val]
LBrace == Tok("{", "punct", <<>>)
RBrace == Tok("}", "punct", <<>>)

ValidBody(m) ==
  << LBrace,
     Tok("jsonrpc", "string", <<"2", ".", "0">>),
     Tok("method", "string", m),
     Tok("params", "array", <<>>),
     Tok("id", "number", <<"1">>),
     RBrace >>

\* {"invalid": "json"}
InvalidBody == << LBrace, Tok("invalid", "string", <<"j">>), RBrace >>
\* a valid envelope whose closing brace is missing
MalformedBody == SubSeq(ValidBody(<<"n">>), 1, 5)
\* Body::empty()
EmptyBody == <<>>
\* "method" is a number
WrongTypeBody ==
  << LBrace,
     Tok("jsonrpc", "string", <<"2", ".", "0">>),
     Tok("method", "number", <<"1">>),
     Tok("params", "array", <<>>),
     Tok("id", "number", <<"1">>),
     RBrace >>

Bodies ==
  { ValidBody(m) : m \in Methods }
    \cup { InvalidBody, MalformedBody, EmptyBody, WrongTypeBody }

HttpMethods == { "POST", "GET", "PUT", "PATCH", "DELETE" }

\* The methods that change state on the server.
MutatingMethods == { "POST", "PUT", "PATCH", "DELETE" }

\* serde_json::from_slice::<rpc::Request>(&bytes): Some(envelope) or None.
FieldOf(bytes, key) ==
  LET ks == { k \in 2..(Len(bytes) - 1) : bytes[k].key = key }
  IN  IF ks = {} THEN NoneV ELSE Some(bytes[CHOOSE k \in ks : TRUE])

from_slice(bytes) ==
  IF Len(bytes) < 2 \/ bytes[1] # LBrace \/ bytes[Len(bytes)] # RBrace
       \/ \E k \in 2..(Len(bytes) - 1) : bytes[k].kind = "punct"
    THEN NoneV
    ELSE LET jsonrpc == FieldOf(bytes, "jsonrpc")
             method == FieldOf(bytes, "method")
             params == FieldOf(bytes, "params")
             id == FieldOf(bytes, "id")
         IN  IF /\ IsSome(jsonrpc) /\ Unwrap(jsonrpc).kind = "string"
                /\ IsSome(method) /\ Unwrap(method).kind = "string"
                /\ IsSome(params)
                /\ IsSome(id) /\ Unwrap(id).kind \in {"string", "number", "null"}
               THEN Some([ jsonrpc |-> Unwrap(jsonrpc).val,
                           method |-> Unwrap(method).val,
                           params |-> Unwrap(params).val,
                           id |-> Unwrap(id).val ])
               ELSE NoneV

\* ------------------------------------------------------------- responses
INVALID_REQUEST == -32600

ErrorEnvelope(message) ==
  [ jsonrpc |-> "2.0", id |-> NoneV,
    error |-> Some([code |-> INVALID_REQUEST, message |-> message]),
    result |-> NoneV ]

\* the hardcoded literal carrying the parse-error code
FallbackLiteral_ParseError ==
  [ jsonrpc |-> "2.0", id |-> NoneV,
    error |-> Some([code |-> -32700, message |-> "Invalid JSON-RPC request"]),
    result |-> NoneV ]

FallbackLiteral == ErrorEnvelope("Invalid JSON-RPC request")

\* create_response answering 400 Bad Request instead of 200
create_response_BadRequest(message, to_vec_ok, builder_ok) ==
  [ status |-> 400, content_type |-> TRUE,
    body |-> IF to_vec_ok THEN ErrorEnvelope(message) ELSE FallbackLiteral ]

\* create_response(message); to_vec_ok and builder_ok are the outcomes of
\* serde_json::to_vec and of Response::builder()..body().
create_response(message, to_vec_ok, builder_ok) ==
  LET body == IF to_vec_ok THEN ErrorEnvelope(message) ELSE FallbackLiteral
  IN  IF builder_ok
        THEN [ status |-> 200, content_type |-> TRUE, body |-> body ]
        ELSE [ status |-> 200, content_type |-> FALSE, body |-> FallbackLiteral ]

\* Every response create_response(message) can build.
CreateResponses(message) ==
  { create_response(message, s, b) : s \in BOOLEAN, b \in BOOLEAN }

\* create_response(message) with what happened inside it: "answer" when the
\* message was serialized and built, "answer_literal" when the hardcoded
\* literal was sent instead.
ErrorAnswers(message) ==
  { [ response |-> create_response(message, s, b),
      ev |-> IF s /\ b THEN "answer" ELSE "answer_literal" ] :
    s \in BOOLEAN, b \in BOOLEAN }

\* What the inner handler (the business service) answers.
SuccessResponse ==
  [ status |-> 200, content_type |-> TRUE,
    body |-> [ jsonrpc |-> "2.0", id |-> Some(1), error |-> NoneV,
               result |-> Some("0x1234") ] ]

AppErrorResponse ==
  [ status |-> 200, content_type |-> TRUE,
    body |-> [ jsonrpc |-> "2.0", id |-> Some(1),
               error |-> Some([code |-> -32601, message |-> "Method not found"]),
               result |-> NoneV ] ]

HandlerResponses == { SuccessResponse, AppErrorResponse }

\* Result<Response, Infallible>
Ok(response) == [ ok |-> TRUE, response |-> response ]
Err(response) == [ ok |-> FALSE, response |-> response ]
NoResult == <<>>

\* ------------------------------------------------------------------ state
VARIABLES
  chain,     \* the layers stacked at startup, outermost first
  phase,     \* per request: idle, absent, running, cancelled
  original,  \* per request: the request as the transport delivered it
  req,       \* per request: the Request<Body> held by the innermost active frame
  pc,        \* per request and frame (layers, then the handler): where its future is
  local,     \* per request and frame: JsonRpcMethodHistogram's `method`
  res,       \* per request and frame: what the frame's future resolved to
  log,       \* per request: what happened, in order
  counter,   \* jsonrpc_method_calls: a bag of labels
  size,      \* jsonrpc_method_body_size: a bag of [label, value]
  latency,   \* jsonrpc_method_latency_ms: a bag of labels
  trace,     \* per request: the trace layer's future and the events it logged
  ready      \* what poll_ready returned on each held service, and which were called

vars ==
  << chain, phase, original, req, pc, local, res, log, counter, size, latency, trace,
     ready >>

LayerKinds == { "Validator", "Counter", "Histogram" }
\* Validator -> Counter -> Histogram -> handler
FullChain == << "Validator", "Counter", "Histogram" >>
Chains == UNION { [1..n -> LayerKinds] : n \in 1..MaxLayers }

Layers == 1..Len(chain)
HandlerIdx == Len(chain) + 1
Frames == 1..HandlerIdx

NoExtensions == [ rpc |-> NoneV, size |-> NoneV ]
NoRequest ==
  [ method |-> "", body |-> [src |-> "", bytes |-> <<>>], extensions |-> NoExtensions ]

Ev(ev, layer, label, value, request) ==
  [ ev |-> ev, layer |-> layer, label |-> label, value |-> value, request |-> request ]

\* Body::from(bytes): a body that replays the buffered bytes.
BodyFrom(bytes) == [ src |-> "buffer", bytes |-> bytes ]

\* to_bytes(body, usize::MAX).await: Some(bytes), or None on a stream error.
\* Only the transport's stream can fail; a buffered body always yields its bytes.
to_bytes(body) ==
  IF body.src = "stream" THEN { Some(body.bytes), NoneV } ELSE { Some(body.bytes) }

\* counter.add as a read followed by a write: an increment that finds the
\* label already counted by another request overwrites it
CounterAdd_LostUpdate(label) ==
  IF BagIn(label, counter) THEN counter ELSE counter (+) SetToBag({label})

\* counter.add(1, [method = label])
CounterAdd(label) == counter (+) SetToBag({label})
\* size.record(value, [method = label])
SizeRecord(value, label) == size (+) SetToBag({[label |-> label, value |-> value]})
\* latency.record(elapsed_ms, [method = label]); the elapsed time is not modelled
LatencyRecord(label) == latency (+) SetToBag({label})

\* The trace layer has not been called for the request.
NoTrace == [ st |-> "idle", status |-> 0, left |-> 0, events |-> <<>> ]

\* No service of the stack has been polled or called. polled[f] is what
\* poll_ready last returned on the service of frame f that its caller holds
\* (frame 1 is held by the transport, frame f + 1 is layer f's self.inner).
NoReadiness ==
  [ polled |-> [f \in 1..(MaxLayers + 1) |-> "unpolled"],
    depth |-> 0,
    invoked |-> {} ]

InitWith(present) ==
  /\ chain \in Chains
  /\ phase = [r \in Requests |-> IF r \in present THEN "idle" ELSE "absent"]
  /\ original = [r \in Requests |-> NoRequest]
  /\ req = [r \in Requests |-> NoRequest]
  /\ pc = [r \in Requests |-> [f \in Frames |-> "idle"]]
  /\ local = [r \in Requests |-> [f \in Frames |-> NoneV]]
  /\ res = [r \in Requests |-> [f \in Frames |-> NoResult]]
  /\ log = [r \in Requests |-> <<>>]
  /\ counter = EmptyBag
  /\ size = EmptyBag
  /\ latency = EmptyBag
  /\ trace = [r \in Requests |-> NoTrace]
  /\ ready = NoReadiness

\* One request in flight.
Init == InitWith({1})

\* The outermost layer is called with a request: one of the given methods and
\* bodies, carrying one of the given extensions.
ArriveAttached(r, methods, bodies, attached) ==
  /\ phase[r] = "idle"
  /\ \E http \in methods, bytes \in bodies, extensions \in attached :
       LET request == [ method |-> http,
                        body |-> [src |-> "stream", bytes |-> bytes],
                        extensions |-> extensions ]
       IN  /\ original' = [original EXCEPT ![r] = request]
           /\ req' = [req EXCEPT ![r] = request]
  /\ phase' = [phase EXCEPT ![r] = "running"]
  /\ pc' = [pc EXCEPT ![r][1] = "start"]
  /\ UNCHANGED << ready, trace, chain, local, res, log, counter, size, latency >>

\* The transport hands over a request; its extensions are empty.
ArriveWith(r, methods, bodies) == ArriveAttached(r, methods, bodies, { NoExtensions })

Arrive(r) == ArriveWith(r, HttpMethods, Bodies)

\* inner.call(request): frame i awaits, frame i+1 starts with the request.
CallInner(r, i, request, events) ==
  /\ req' = [req EXCEPT ![r] = request]
  /\ pc' = [pc EXCEPT ![r][i] = "awaiting", ![r][i + 1] = "start"]
  /\ log' = [log EXCEPT ![r] = @ \o events \o << Ev("call", i, <<>>, 0, request) >>]
  /\ UNCHANGED res

\* The frame's future resolves to result.
Resolve(r, i, result, events) ==
  /\ res' = [res EXCEPT ![r][i] = result]
  /\ pc' = [pc EXCEPT ![r][i] = "done"]
  /\ log' = [log EXCEPT ![r] = @ \o events]
  /\ UNCHANGED req

\* The frame suspends in to_bytes(body).await.
StartRead(r, i) ==
  /\ pc' = [pc EXCEPT ![r][i] = "reading"]
  /\ UNCHANGED << req, res, log >>

At(r, i, kind, where) ==
  /\ phase[r] = "running"
  /\ i \in Layers
  /\ chain[i] = kind
  /\ pc[r][i] = where

InnerDone(r, i) == pc[r][i + 1] = "done"

\* ------------------------------------------------------- RequestValidator
\* RequestValidator validating everything but GET
ValidatorBypasses_GetOnly(method) == method = "GET"

\* RequestValidator with the test inverted
ValidatorBypasses_Inverted(method) == method = "POST"

\* RequestValidator validating every mutating method
ValidatorBypasses_Mutating(method) == method \notin MutatingMethods

\* parts.method != Method::POST
ValidatorBypasses(method) == method # "POST"

\* RequestValidator forwarding without putting the bytes back
ValidatorForward_EmptyBody(request, bytes, json_rpc) ==
  [ method |-> request.method,
    body |-> BodyFrom(<<>>),
    extensions |-> [ rpc |-> Some(json_rpc), size |-> Some(Len(bytes)) ] ]

\* Request::from_parts(parts, Body::from(body)) with json_rpc and size inserted
ValidatorForward(request, bytes, json_rpc) ==
  [ method |-> request.method,
    body |-> BodyFrom(bytes),
    extensions |-> [ rpc |-> Some(json_rpc), size |-> Some(Len(bytes)) ] ]

\* the message of the answer to a body that cannot be read
ValidatorReadFailureMessage_Invalid == "Invalid JSON-RPC request"

ValidatorReadFailureMessage == "Failed to read request body"

\* RequestValidator::call up to its first await.
ValidatorCall(r, i) ==
  /\ At(r, i, "Validator", "start")
  /\ IF ValidatorBypasses(req[r].method)
       THEN CallInner(r, i, req[r], <<>>)
       ELSE StartRead(r, i)
  /\ UNCHANGED << ready, trace, chain, phase, original, local, counter, size, latency >>

\* RequestValidator::call resumed once to_bytes has resolved.
ValidatorBody(r, i) ==
  /\ At(r, i, "Validator", "reading")
  /\ \E read \in to_bytes(req[r].body) :
       LET events == << Ev(IF IsSome(read) THEN "read" ELSE "read_failed", i, <<>>, 0, req[r]) >>
       IN  IF ~IsSome(read)
             THEN \E a \in ErrorAnswers(ValidatorReadFailureMessage) :
                    Resolve(r, i, Ok(a.response),
                            events \o << Ev(a.ev, i, <<>>, 0, NoRequest) >>)
             ELSE LET body == Unwrap(read)
                      parsed == from_slice(body)
                  IN  IF IsSome(parsed)
                        THEN CallInner(r, i, ValidatorForward(req[r], body, Unwrap(parsed)),
                                       events \o << Ev("insert_rpc", i, <<>>, 0, NoRequest),
                                                    Ev("insert_size", i, <<>>, 0, NoRequest) >>)
                        ELSE \E a \in ErrorAnswers("Invalid JSON-RPC request") :
                               Resolve(r, i, Ok(a.response),
                                       events \o << Ev(a.ev, i, <<>>, 0, NoRequest) >>)
  /\ UNCHANGED << ready, trace, chain, phase, original, local, counter, size, latency >>

\* What RequestValidator returns for the inner service's result.
ValidatorResult(method, inner) ==
  IF ValidatorBypasses(method) \/ inner.ok
    THEN { inner }
    ELSE { Ok(response) : response \in CreateResponses("Internal server error") }

\* RequestValidator::call resumed once the inner service has resolved.
ValidatorReturn(r, i) ==
  /\ At(r, i, "Validator", "awaiting")
  /\ InnerDone(r, i)
  /\ \E result \in ValidatorResult(req[r].method, res[r][i + 1]) :
       Resolve(r, i, result, <<>>)
  /\ UNCHANGED << ready, trace, chain, phase, original, local, counter, size, latency >>

\* --------------------------------------------------- JsonRpcMethodCounter
\* the label taken as sent, not lower-cased
CounterContextLabel_Raw(json_rpc) == json_rpc.method

\* KeyValue::new("method", json_rpc.method.to_lowercase()), context path
CounterContextLabel(json_rpc) == to_lowercase(json_rpc.method)
\* KeyValue::new("method", rpc_request.method.to_lowercase()), fallback path
CounterFallbackLabel(rpc_request) == to_lowercase(rpc_request.method)

\* JsonRpcMethodCounter::call up to its first await.
CounterCall(r, i) ==
  /\ At(r, i, "Counter", "start")
  /\ IF IsSome(req[r].extensions.rpc)
       THEN LET label == CounterContextLabel(Unwrap(req[r].extensions.rpc))
            IN  /\ counter' = CounterAdd(label)
                /\ CallInner(r, i, req[r], << Ev("counter", i, label, 1, NoRequest) >>)
       ELSE /\ StartRead(r, i)
            /\ UNCHANGED counter
  /\ UNCHANGED << ready, trace, chain, phase, original, local, size, latency >>

\* JsonRpcMethodCounter handing on the body it was given, not the bytes it read
CounterRestore_Unrestored(request, bytes) == request

\* JsonRpcMethodCounter attaching what it parsed, as the Validator does
CounterRestore_Attaches(request, bytes) ==
  [ method |-> request.method, body |-> BodyFrom(bytes),
    extensions |-> [ rpc |-> from_slice(bytes), size |-> Some(Len(bytes)) ] ]

\* The request JsonRpcMethodCounter forwards on its fallback path.
CounterRestore(request, bytes) ==
  [ method |-> request.method, body |-> BodyFrom(bytes),
    extensions |-> request.extensions ]

\* the stream error handed on instead of an answer
CounterReadFailure_Err(response) == Err(response)

\* return Ok(create_response("Failed to read request body"))
CounterReadFailure(response) == Ok(response)

CounterReadFailureMessage == "Failed to read request body"

\* JsonRpcMethodCounter parsing the body of POST requests only
CounterFallbackParse_PostOnly(request, bytes) ==
  IF request.method = "POST" THEN from_slice(bytes) ELSE NoneV

\* serde_json::from_slice::<RpcRequest>(&bytes): the parts are not consulted
CounterFallbackParse(request, bytes) == from_slice(bytes)

\* JsonRpcMethodCounter::call resumed once to_bytes has resolved.
CounterBody(r, i) ==
  /\ At(r, i, "Counter", "reading")
  /\ \E read \in to_bytes(req[r].body) :
       LET events == << Ev(IF IsSome(read) THEN "read" ELSE "read_failed", i, <<>>, 0, req[r]) >>
       IN  IF ~IsSome(read)
             THEN /\ \E a \in ErrorAnswers(CounterReadFailureMessage) :
                       Resolve(r, i, CounterReadFailure(a.response),
                               events \o << Ev(a.ev, i, <<>>, 0, NoRequest) >>)
                  /\ UNCHANGED counter
             ELSE LET bytes == Unwrap(read)
                      parsed == CounterFallbackParse(req[r], bytes)
                      request == CounterRestore(req[r], bytes)
                  IN  IF IsSome(parsed)
                        THEN LET label == CounterFallbackLabel(Unwrap(parsed))
                             IN  /\ counter' = CounterAdd(label)
                                 /\ CallInner(r, i, request,
                                      events \o << Ev("counter", i, label, 1, NoRequest) >>)
                        ELSE /\ CallInner(r, i, request, events)
                             /\ UNCHANGED counter
  /\ UNCHANGED << ready, trace, chain, phase, original, local, size, latency >>

\* JsonRpcMethodCounter::call resumed once the inner service has resolved.
CounterReturn(r, i) ==
  /\ At(r, i, "Counter", "awaiting")
  /\ InnerDone(r, i)
  /\ Resolve(r, i, res[r][i + 1], <<>>)
  /\ UNCHANGED << ready, trace, chain, phase, original, local, counter, size, latency >>

\* ------------------------------------------------- JsonRpcMethodHistogram
\* the label taken as sent, not lower-cased
HistogramContextLabel_Raw(json_rpc) == json_rpc.method

\* json_rpc.method.to_lowercase(), context path
HistogramContextLabel(json_rpc) == to_lowercase(json_rpc.method)
\* json_rpc.method.to_lowercase(), fallback path
HistogramFallbackLabel(json_rpc) == to_lowercase(json_rpc.method)

\* `method` lost on the fallback path
HistogramFallbackMethod_None(parsed) == NoneV

\* `method` on the fallback path: Some(label) when the bytes deserialize
HistogramFallbackMethod(parsed) ==
  IF IsSome(parsed) THEN Some(HistogramFallbackLabel(Unwrap(parsed))) ELSE NoneV

\* a size sample of 0 recorded when no byte length is attached
HistogramContextSize_Zero(extensions) ==
  IF IsSome(extensions.size) THEN extensions.size ELSE Some(0)

\* parts.extensions.get::<usize>()
HistogramContextSize(extensions) == extensions.size

\* JsonRpcMethodHistogram::call up to its first await.
HistogramCall(r, i) ==
  /\ At(r, i, "Histogram", "start")
  /\ IF IsSome(req[r].extensions.rpc)
       THEN LET label == HistogramContextLabel(Unwrap(req[r].extensions.rpc))
                bytes_size == HistogramContextSize(req[r].extensions)
            IN  /\ IF IsSome(bytes_size)
                     THEN /\ size' = SizeRecord(Unwrap(bytes_size), label)
                          /\ CallInner(r, i, req[r],
                               << Ev("size", i, label, Unwrap(bytes_size), NoRequest) >>)
                     ELSE /\ UNCHANGED size
                          /\ CallInner(r, i, req[r], <<>>)
                /\ local' = [local EXCEPT ![r][i] = Some(label)]
       ELSE /\ StartRead(r, i)
            /\ UNCHANGED << size, local >>
  /\ UNCHANGED << ready, trace, chain, phase, original, counter, latency >>

\* JsonRpcMethodHistogram forwarding an empty body after it consumed the stream
HistogramRestore_Empty(request, bytes) ==
  [ method |-> request.method, body |-> BodyFrom(<<>>),
    extensions |-> request.extensions ]

\* The request JsonRpcMethodHistogram forwards on its fallback path.
HistogramRestore(request, bytes) ==
  [ method |-> request.method, body |-> BodyFrom(bytes),
    extensions |-> request.extensions ]

\* return Ok(create_response("Failed to read request body"))
HistogramReadFailure(response) == Ok(response)

HistogramReadFailureMessage == "Failed to read request body"

\* JsonRpcMethodHistogram::call resumed once to_bytes has resolved.
HistogramBody(r, i) ==
  /\ At(r, i, "Histogram", "reading")
  /\ \E read \in to_bytes(req[r].body) :
       LET events == << Ev(IF IsSome(read) THEN "read" ELSE "read_failed", i, <<>>, 0, req[r]) >>
       IN  IF ~IsSome(read)
             THEN /\ \E a \in ErrorAnswers(HistogramReadFailureMessage) :
                       Resolve(r, i, HistogramReadFailure(a.response),
                               events \o << Ev(a.ev, i, <<>>, 0, NoRequest) >>)
                  /\ UNCHANGED << size, local >>
             ELSE LET bytes == Unwrap(read)
                      parsed == from_slice(bytes)
                      request == HistogramRestore(req[r], bytes)
                  IN  /\ local' = [local EXCEPT ![r][i] = HistogramFallbackMethod(parsed)]
                      /\ IF IsSome(parsed)
                           THEN LET label == HistogramFallbackLabel(Unwrap(parsed))
                                IN  /\ size' = SizeRecord(Len(bytes), label)
                                    /\ CallInner(r, i, request,
                                         events \o << Ev("size", i, label, Len(bytes), NoRequest) >>)
                           ELSE /\ CallInner(r, i, request, events)
                                /\ UNCHANGED size
  /\ UNCHANGED << ready, trace, chain, phase, original, counter, latency >>

\* latency recorded for successful answers only
HistogramRecordsLatency_SuccessOnly(method, inner) ==
  IsSome(method) /\ inner.ok /\ ~IsSome(inner.response.body.error)

\* if let Some(method) = method: the inner response is not looked at
HistogramRecordsLatency(method, inner) == IsSome(method)

\* JsonRpcMethodHistogram::call resumed once the inner service has resolved.
HistogramReturn(r, i) ==
  /\ At(r, i, "Histogram", "awaiting")
  /\ InnerDone(r, i)
  /\ IF HistogramRecordsLatency(local[r][i], res[r][i + 1])
       THEN /\ latency' = LatencyRecord(Unwrap(local[r][i]))
            /\ Resolve(r, i, res[r][i + 1],
                 << Ev("latency", i, Unwrap(local[r][i]), 0, NoRequest) >>)
       ELSE /\ UNCHANGED latency
            /\ Resolve(r, i, res[r][i + 1], <<>>)
  /\ UNCHANGED << ready, trace, chain, phase, original, local, counter, size >>

\* ------------------------------------------------------ handler, transport
\* The inner handler answers; its Error type is Infallible, so it answers Ok.
HandlerRespond(r) ==
  /\ phase[r] = "running"
  /\ pc[r][HandlerIdx] = "start"
  /\ \E response \in HandlerResponses :
       Resolve(r, HandlerIdx, Ok(response), <<>>)
  /\ UNCHANGED << ready, trace, chain, phase, original, local, counter, size, latency >>

\* A frame of the request is suspended at an await that can return Pending.
Suspended(r) ==
  \/ \E i \in Layers : pc[r][i] = "reading"
  \/ pc[r][HandlerIdx] = "start"

\* The transport drops the request's future (client disconnect).
Cancel(r) ==
  /\ phase[r] = "running"
  /\ Suspended(r)
  /\ phase' = [phase EXCEPT ![r] = "cancelled"]
  /\ UNCHANGED << ready, trace, chain, original, req, pc, local, res, log, counter, size, latency >>

Next ==
  \E r \in Requests :
    \/ Arrive(r)
    \/ HandlerRespond(r)
    \/ Cancel(r)
    \/ \E i \in 1..MaxLayers :
         \/ ValidatorCall(r, i)
         \/ ValidatorBody(r, i)
         \/ ValidatorReturn(r, i)
         \/ CounterCall(r, i)
         \/ CounterBody(r, i)
         \/ CounterReturn(r, i)
         \/ HistogramCall(r, i)
         \/ HistogramBody(r, i)
         \/ HistogramReturn(r, i)

Spec == Init /\ [][Next]_vars

\* Several requests in flight at once through a chain that counts: every
\* request is handled on a clone of the service, all clones share the one
\* Counter<u64>, and the steps of the requests interleave freely.
ConcChains == { << "Counter" >>, << "Validator", "Counter" >> }

ConcBodies == { ValidBody(<< "e", "B" >>), ValidBody(<< "e", "b" >>), InvalidBody }

InitConc ==
  /\ InitWith(Requests)
  /\ chain \in ConcChains

ArriveConc(r) == ArriveWith(r, { "POST" }, ConcBodies)

NextConc ==
  \E r \in Requests :
    \/ ArriveConc(r)
    \/ HandlerRespond(r)
    \/ \E i \in 1..MaxLayers :
         \/ ValidatorCall(r, i)
         \/ ValidatorBody(r, i)
         \/ ValidatorReturn(r, i)
         \/ CounterCall(r, i)
         \/ CounterBody(r, i)
         \/ CounterReturn(r, i)

SpecConc == InitConc /\ [][NextConc]_vars

\* A Histogram called by a layer that is not of this crate and that attached
\* an envelope of its own, without a byte length, to the request.
AttachedChains ==
  { << "Histogram" >>, << "Validator", "Histogram" >>,
    << "Histogram", "Validator", "Histogram" >> }

AttachedBodies == { ValidBody(<< "e", "B" >>), InvalidBody }

EnvelopeOnly ==
  [ rpc |-> from_slice(ValidBody(<< "n" >>)), size |-> NoneV ]

InitAttached ==
  /\ InitWith({1})
  /\ chain \in AttachedChains

ArriveEnvelope(r) ==
  ArriveAttached(r, { "POST", "GET" }, AttachedBodies, { NoExtensions, EnvelopeOnly })

NextAttached ==
  \E r \in Requests :
    \/ ArriveEnvelope(r)
    \/ HandlerRespond(r)
    \/ \E i \in 1..MaxLayers :
         \/ ValidatorCall(r, i)
         \/ ValidatorBody(r, i)
         \/ ValidatorReturn(r, i)
         \/ HistogramCall(r, i)
         \/ HistogramBody(r, i)
         \/ HistogramReturn(r, i)

SpecAttached == InitAttached /\ [][NextAttached]_vars

\* -------------------------------------------------------------- poll_ready
\* Whether poll_ready of a layer of this kind asks self.inner: the Validator
\* answers Poll::Ready(Ok(())) by itself, Counter and Histogram return
\* self.inner.poll_ready(cx).
ForwardsPoll(kind) == kind \in { "Counter", "Histogram" }

\* The frames a poll_ready on the outermost service reaches.
PolledFrames ==
  { f \in Frames : \A g \in 1..(f - 1) : ForwardsPoll(chain[g]) }

\* What the poll returns on each frame it reaches: the handler's answer when
\* it gets that far, Ready when a layer answered by itself.
PollResult(handler_ready) ==
  IF HandlerIdx \in PolledFrames /\ ~handler_ready THEN "pending" ELSE "ready"

\* The transport polls the outermost service.
PollReady ==
  /\ \E handler_ready \in BOOLEAN :
       ready' = [ready EXCEPT !.polled =
                   [f \in 1..(MaxLayers + 1) |->
                      IF f \in PolledFrames THEN PollResult(handler_ready) ELSE @[f]]]
  /\ UNCHANGED << trace, chain, phase, original, req, pc, local, res, log, counter, size, latency >>

\* The transport calls the outermost service, which it has polled ready.
CallOutermost ==
  /\ ready.depth = 0
  /\ ready.polled[1] = "ready"
  /\ ready' = [ready EXCEPT
                 !.depth = 1,
                 !.polled[1] = "unpolled",
                 !.invoked = @ \cup { [frame |-> 1, instance |-> "held", polled |-> TRUE] }]
  /\ UNCHANGED << trace, chain, phase, original, req, pc, local, res, log, counter, size, latency >>

\* the layer calling the service it holds, the one that was polled
CalledInstance_Held == "held"

\* let mut inner = self.inner.clone(): what is called is a new clone
CalledInstance == "clone"

\* Layer f calls its inner service: inner.call(request) on the instance of
\* CalledInstance; a clone made in call has not been polled by anyone.
CallInnerService(f) ==
  /\ ready.depth = f
  /\ f \in Layers
  /\ ready' = [ready EXCEPT
                 !.depth = f + 1,
                 !.invoked = @ \cup
                   { [ frame |-> f + 1,
                       instance |-> CalledInstance,
                       polled |-> CalledInstance = "held" /\ ready.polled[f + 1] = "ready" ] }]
  /\ UNCHANGED << trace, chain, phase, original, req, pc, local, res, log, counter, size, latency >>

\* The innermost active frame answers (the handler, or a layer by itself) and
\* the call returns to the transport.
CallReturns ==
  /\ ready.depth > 0
  /\ ready' = [ready EXCEPT !.depth = 0]
  /\ UNCHANGED << trace, chain, phase, original, req, pc, local, res, log, counter, size, latency >>

\* The stack of services alone, polled and called by the transport.
InitReady == InitWith({})

NextReady ==
  \/ PollReady
  \/ CallOutermost
  \/ CallReturns
  \/ \E f \in 1..MaxLayers : CallInnerService(f)

SpecReady == InitReady /\ [][NextReady]_vars

\* ------------------------------------------------------------ trace_layer
\* The status codes the wrapped service answers with.
TraceStatuses == { 200, 500 }

\* ServerErrorsAsFailures: a response is a failure when its status is 5xx.
ServerErrorsAsFailures(status) == status >= 500 /\ status <= 599

\* The trace layer logs one more event against the request's span.
Emit(r, messages) == [trace[r] EXCEPT !.events = @ \o messages]

\* Trace::call: the span is made and on_request runs before the wrapped
\* service is called.
TraceCall(r) ==
  /\ trace[r].st = "idle"
  /\ trace' = [trace EXCEPT ![r] =
                 [Emit(r, << "Incoming request" >>) EXCEPT !.st = "pending"]]
  /\ UNCHANGED << ready, chain, phase, original, req, pc, local, res, log, counter, size, latency >>

\* The wrapped service resolves to a response: on_response runs for every
\* response, then on_failure as well when the classifier calls it a failure.
\* The body, of `chunks` frames, is handed on to be streamed.
TraceResponse(r) ==
  /\ trace[r].st = "pending"
  /\ \E status \in TraceStatuses, chunks \in 0..MaxChunks :
       trace' = [trace EXCEPT ![r] =
                  [Emit(r, IF ServerErrorsAsFailures(status)
                             THEN << "Request Succeeded", "Request Failed" >>
                             ELSE << "Request Succeeded" >>)
                     EXCEPT !.st = "streaming", !.status = status, !.left = chunks]]
  /\ UNCHANGED << ready, chain, phase, original, req, pc, local, res, log, counter, size, latency >>

\* The wrapped service resolves to an error: on_failure runs alone, with
\* ServerErrorsFailureClass::Error, and logs status 500.
TraceError(r) ==
  /\ trace[r].st = "pending"
  /\ trace' = [trace EXCEPT ![r] =
                 [Emit(r, << "Request Failed" >>)
                    EXCEPT !.st = "finished", !.status = 500]]
  /\ UNCHANGED << ready, chain, phase, original, req, pc, local, res, log, counter, size, latency >>

\* The response body yields a data frame: on_body_chunk runs.
TraceBodyChunk(r) ==
  /\ trace[r].st = "streaming"
  /\ trace[r].left > 0
  /\ trace' = [trace EXCEPT ![r] =
                 [Emit(r, << "Body chunk" >>) EXCEPT !.left = @ - 1]]
  /\ UNCHANGED << ready, chain, phase, original, req, pc, local, res, log, counter, size, latency >>

\* The response body ends without trailers: DefaultOnEos is not called.
TraceBodyEnd(r) ==
  /\ trace[r].st = "streaming"
  /\ trace[r].left = 0
  /\ trace' = [trace EXCEPT ![r].st = "finished"]
  /\ UNCHANGED << ready, chain, phase, original, req, pc, local, res, log, counter, size, latency >>

\* The trace layer alone, around a service that answers as it likes.
InitTrace ==
  /\ InitWith({})
  /\ chain = FullChain

NextTrace ==
  \E r \in Requests :
    \/ TraceCall(r)
    \/ TraceResponse(r)
    \/ TraceError(r)
    \/ TraceBodyChunk(r)
    \/ TraceBodyEnd(r)

SpecTrace == InitTrace /\ [][NextTrace]_vars

\* ----------------------------------------------------- reading the record
\* The events of kind ev that layer i of request r produced, in order.
EventsBy(r, i, ev) == SelectSeq(log[r], LAMBDA e : e.ev = ev /\ e.layer = i)

\* Every event of the given kinds in request r's record.
EventsOf(r, kinds) == SelectSeq(log[r], LAMBDA e : e.ev \in kinds)

\* The request frame i of request r was called with.
Received(r, i) ==
  IF i = 1 THEN original[r]
  ELSE LET calls == EventsBy(r, i - 1, "call")
       IN  IF calls = <<>> THEN NoRequest ELSE calls[1].request

\* Frame i of request r has run past its entry.
Entered(r, i) == pc[r][i] \in { "reading", "awaiting", "done" }

\* Layer i got hold of the body bytes or of an attached envelope and went on.
Forwarded(r, i) == pc[r][i] \in { "awaiting", "done" } /\ Len(EventsBy(r, i, "call")) > 0

\* Layer i answered by itself, without calling the inner service.
ShortCircuited(r, i) == pc[r][i] = "done" /\ Len(EventsBy(r, i, "call")) = 0

RECURSIVE SumOver(_, _)
SumOver(f, S) ==
  IF S = {} THEN 0
  ELSE LET x == CHOOSE x \in S : TRUE IN f[x] + SumOver(f, S \ {x})

\* How many events of kind ev with this label and value all requests recorded.
Recorded(ev, label, value) ==
  SumOver([r \in Requests |->
             Cardinality({ k \in DOMAIN log[r] :
                             /\ log[r][k].ev = ev
                             /\ log[r][k].label = label
                             /\ log[r][k].value = value })],
          Requests)

\* The instruments hold exactly what the layers' records say, label by label.
InstrumentsMatchRecord ==
  /\ \A l \in BagToSet(counter) \cup Labels :
       CopiesIn(l, counter) = Recorded("counter", l, 1)
  /\ \A l \in BagToSet(latency) \cup Labels :
       CopiesIn(l, latency) = Recorded("latency", l, 0)
  /\ \A s \in BagToSet(size) \cup { [label |-> l, value |-> Len(b)] : l \in Labels, b \in Bodies } :
       CopiesIn(s, size) = Recorded("size", s.label, s.value)

IsInvalidRequestResponse(response, message) ==
  /\ response.status = 200
  /\ response.body.jsonrpc = "2.0"
  /\ response.body.id = NoneV
  /\ response.body.result = NoneV
  /\ response.body.error = Some([code |-> -32600, message |-> message])

\* ------------------------------------------------------------------ claims

\* C1: a POST body that RequestValidator reads successfully and that does not
\* deserialize as an envelope is answered with HTTP 200 and the JSON-RPC error
\* (id null, code -32600, "Invalid JSON-RPC request"); the inner service is
\* never called.
C1_InvalidEnvelopeRejected ==
  \A r \in Requests : \A i \in Layers :
    ( /\ chain[i] = "Validator"
      /\ Len(EventsBy(r, i, "read")) > 0
      /\ Received(r, i).method = "POST"
      /\ ~IsSome(from_slice(Received(r, i).body.bytes)) )
    => /\ pc[r][i] = "done"
       /\ res[r][i].ok
       /\ IsInvalidRequestResponse(res[r][i].response, "Invalid JSON-RPC request")
       /\ Len(EventsBy(r, i, "call")) = 0
       /\ pc[r][i + 1] = "idle"

C1_Witness ==
  \E r \in Requests : \E i \in Layers :
    /\ chain[i] = "Validator"
    /\ Len(EventsBy(r, i, "read")) > 0
    /\ Received(r, i).method = "POST"
    /\ Received(r, i).body.bytes = EmptyBody
    /\ pc[r][i] = "done"

\* C2: a POST body that deserializes makes RequestValidator call the inner
\* service exactly once, with the original bytes as the body and with the
\* parsed envelope and the byte length in the extensions, and return the
\* inner service's response as it is.
C2_ValidForwarded ==
  \A r \in Requests : \A i \in Layers :
    ( /\ chain[i] = "Validator"
      /\ Len(EventsBy(r, i, "read")) > 0
      /\ Received(r, i).method = "POST"
      /\ IsSome(from_slice(Received(r, i).body.bytes)) )
    => LET bytes == Received(r, i).body.bytes
           calls == EventsBy(r, i, "call")
       IN  /\ Len(calls) = 1
           /\ calls[1].request.method = "POST"
           /\ calls[1].request.body.bytes = bytes
           /\ bytes = original[r].body.bytes
           /\ calls[1].request.extensions.rpc = from_slice(bytes)
           /\ calls[1].request.extensions.size = Some(Len(bytes))
           /\ pc[r][i] \in { "awaiting", "done" }
           /\ pc[r][i] = "done" => res[r][i] = res[r][i + 1]

C2_Witness ==
  \E r \in Requests : \E i \in Layers :
    /\ chain[i] = "Validator"
    /\ Received(r, i).method = "POST"
    /\ Len(EventsBy(r, i, "read")) > 0
    /\ Len(EventsBy(r, i, "call")) = 1
    /\ pc[r][i] = "done"
    /\ res[r][i] = Ok(AppErrorResponse)

\* C3: in every chain of Validator, Counter and Histogram the transport's body
\* stream is read at most once; every read after it is of buffered bytes, and
\* a layer that finds the envelope in the extensions does not read at all.
ReadsOf(r) == EventsOf(r, { "read", "read_failed" })

C3_BodyReadOnce ==
  \A r \in Requests :
    LET reads == ReadsOf(r)
    IN  /\ Cardinality({ k \in DOMAIN reads : reads[k].request.body.src = "stream" }) <= 1
        /\ \A k \in DOMAIN reads : k > 1 => reads[k].request.body.src = "buffer"
        /\ \A k \in DOMAIN log[r] : \A m \in DOMAIN log[r] :
             ( /\ k < m
               /\ log[r][k].ev \in { "read", "read_failed" }
               /\ log[r][m].ev = "call" )
             => log[r][m].request.body = BodyFrom(original[r].body.bytes)
        /\ \A i \in Layers :
             ( /\ chain[i] \in { "Counter", "Histogram" }
               /\ Entered(r, i)
               /\ IsSome(Received(r, i).extensions.rpc) )
             => /\ Len(EventsBy(r, i, "read")) = 0
                /\ Len(EventsBy(r, i, "read_failed")) = 0

C3_Witness ==
  \E r \in Requests :
    LET reads == ReadsOf(r)
    IN  /\ Len(reads) = 2
        /\ reads[1].request.body.src = "stream"
        /\ reads[2].request.body.src = "buffer"
        /\ \E i \in Layers :
             /\ chain[i] = "Histogram"
             /\ pc[r][i] = "done"
             /\ IsSome(Received(r, i).extensions.rpc)

\* C4: one traversal of JsonRpcMethodCounter by a well-formed envelope with
\* method M adds exactly 1 to the counter labelled lower-case M and touches no
\* other label, on the extensions path and on the path that parses the body.
C4_CounterOncePerTraversal ==
  /\ InstrumentsMatchRecord
  /\ \A r \in Requests : \A i \in Layers :
       ( /\ chain[i] = "Counter"
         /\ Forwarded(r, i)
         /\ IsSome(from_slice(original[r].body.bytes)) )
       => EventsBy(r, i, "counter")
            = << Ev("counter", i,
                    to_lowercase(Unwrap(from_slice(original[r].body.bytes)).method),
                    1, NoRequest) >>
  /\ \A r \in Requests : \A k \in DOMAIN log[r] :
       log[r][k].ev = "counter" => chain[log[r][k].layer] = "Counter"

C4_Witness ==
  \E r \in Requests :
    /\ chain = << "Counter", "Validator", "Counter" >>
    /\ original[r].body.bytes = ValidBody(<< "e", "B" >>)
    /\ pc[r][1] = "done"
    /\ Len(EventsBy(r, 1, "read")) = 1
    /\ Len(EventsBy(r, 3, "read")) = 0
    /\ CopiesIn(<< "e", "b" >>, counter) = 2
    /\ BagToSet(counter) = { << "e", "b" >> }

\* C5: one completed traversal of JsonRpcMethodHistogram by a well-formed
\* envelope records exactly one size sample and exactly one latency sample,
\* both labelled by the lower-case method; a malformed envelope records none.
C5_HistogramSamples ==
  /\ InstrumentsMatchRecord
  /\ \A r \in Requests : \A i \in Layers :
       chain[i] = "Histogram" /\ Entered(r, i)
       => LET bytes == original[r].body.bytes
              parsed == from_slice(bytes)
          IN  IF IsSome(parsed)
                THEN ( pc[r][i] = "done" /\ Forwarded(r, i) )
                     => LET label == to_lowercase(Unwrap(parsed).method)
                        IN  /\ EventsBy(r, i, "size")
                                 = << Ev("size", i, label, Len(bytes), NoRequest) >>
                            /\ EventsBy(r, i, "latency")
                                 = << Ev("latency", i, label, 0, NoRequest) >>
                ELSE /\ EventsBy(r, i, "size") = <<>>
                     /\ EventsBy(r, i, "latency") = <<>>
  /\ \A r \in Requests : \A k \in DOMAIN log[r] :
       log[r][k].ev \in { "size", "latency" } => chain[log[r][k].layer] = "Histogram"

C5_Witness ==
  \E r \in Requests : \E i, j \in Layers :
    /\ chain[i] = "Histogram" /\ chain[j] = "Histogram" /\ i < j
    /\ pc[r][i] = "done" /\ pc[r][j] = "done"
    /\ Len(EventsBy(r, i, "read")) = 1
    /\ Len(EventsBy(r, j, "read")) = 0
    /\ IsSome(Received(r, j).extensions.rpc)
    /\ BagCardinality(size) = 2
    /\ BagCardinality(latency) = 2

C5_WitnessMalformed ==
  \E r \in Requests : \E i \in Layers :
    /\ chain[i] = "Histogram"
    /\ pc[r][i] = "done"
    /\ Forwarded(r, i)
    /\ original[r].body.bytes = MalformedBody

\* C6 (as claimed): a request cancelled while one of its layers is suspended
\* has recorded no counter increment and no histogram sample.
C6_CancelledRecordsNothing ==
  \A r \in Requests :
    phase[r] = "cancelled"
    => EventsOf(r, { "counter", "size", "latency" }) = <<>>

\* C7: no layer resolves to an error of the transport: every call resolves to
\* Ok, and whenever a layer answers by itself (body read failure, malformed
\* envelope, failure to serialize the error) the answer is HTTP 200 with a
\* JSON-RPC error envelope (jsonrpc "2.0", id null, code -32600) that every
\* outer layer hands to the client as it is.
IsErrorEnvelope(response) ==
  /\ response.status = 200
  /\ response.body.jsonrpc = "2.0"
  /\ response.body.id = NoneV
  /\ response.body.result = NoneV
  /\ IsSome(response.body.error)
  /\ Unwrap(response.body.error).code = -32600
  /\ Unwrap(response.body.error).message
       \in { "Invalid JSON-RPC request", "Failed to read request body",
             "Internal server error" }

C7_AlwaysProtocolError ==
  \A r \in Requests : \A i \in Layers :
    /\ pc[r][i] = "done" <=> res[r][i] # NoResult
    /\ pc[r][i] = "done"
       => /\ res[r][i].ok
          /\ ShortCircuited(r, i)
             => /\ IsErrorEnvelope(res[r][i].response)
                /\ \A j \in 1..i : pc[r][j] = "done" => res[r][j] = res[r][i]

C7_Witness ==
  \E r \in Requests : \E i \in Layers :
    /\ i > 1
    /\ ShortCircuited(r, i)
    /\ Len(EventsBy(r, i, "read_failed")) = 1
    /\ res[r][i].response.content_type = FALSE
    /\ pc[r][1] = "done"

\* C8: in the chain Validator -> Counter -> Histogram -> handler a POST
\* request whose body does not deserialize is answered by the Validator at
\* once: no later layer and no handler ever runs and nothing is recorded.
C8_InvalidStopsAtValidator ==
  \A r \in Requests :
    ( /\ chain = FullChain
      /\ original[r].method = "POST"
      /\ ~IsSome(from_slice(original[r].body.bytes)) )
    => /\ \A f \in 2..HandlerIdx : pc[r][f] = "idle"
       /\ pc[r][1] \in { "start", "reading", "done" }
       /\ EventsOf(r, { "call", "counter", "size", "latency" }) = <<>>
       /\ counter = EmptyBag /\ size = EmptyBag /\ latency = EmptyBag
       /\ ( pc[r][1] = "done" /\ Len(EventsBy(r, 1, "read")) = 1 )
          => IsInvalidRequestResponse(res[r][1].response, "Invalid JSON-RPC request")

C8_Witness ==
  \E r \in Requests :
    /\ chain = FullChain
    /\ original[r].method = "POST"
    /\ original[r].body.bytes = InvalidBody
    /\ Len(EventsBy(r, 1, "read")) = 1
    /\ pc[r][1] = "done"

\* C9: for the same body bytes, the label a Counter (a Histogram) records on
\* the path that parses the body itself equals the label it records on the
\* path that takes the envelope the Validator attached.
LabelsBy(r, i) ==
  { log[r][k].label :
      k \in { n \in DOMAIN log[r] :
                /\ log[r][n].layer = i
                /\ log[r][n].ev \in { "counter", "size", "latency" } } }

OnFallbackPath(r, i) == Len(EventsBy(r, i, "read")) = 1
OnContextPath(r, i) ==
  /\ Entered(r, i)
  /\ IsSome(Received(r, i).extensions.rpc)
  /\ Len(EventsBy(r, i, "read")) = 0

C9_PathsAgreeOnLabel ==
  \A r1 \in Requests : \A r2 \in Requests :
    \A i1 \in Layers : \A i2 \in Layers :
      ( /\ chain[i1] \in { "Counter", "Histogram" }
        /\ chain[i1] = chain[i2]
        /\ original[r1].body.bytes = original[r2].body.bytes
        /\ OnFallbackPath(r1, i1) /\ pc[r1][i1] = "done"
        /\ OnContextPath(r2, i2) /\ pc[r2][i2] = "done" )
      => LabelsBy(r1, i1) = LabelsBy(r2, i2)

C9_Witness ==
  \E r \in Requests : \E i1 \in Layers : \E i2 \in Layers :
    /\ chain[i1] = "Histogram" /\ chain[i2] = "Histogram"
    /\ OnFallbackPath(r, i1) /\ pc[r][i1] = "done"
    /\ OnContextPath(r, i2) /\ pc[r][i2] = "done"
    /\ original[r].body.bytes = ValidBody(<< "e", "B" >>)
    /\ LabelsBy(r, i2) = { << "e", "b" >> }

\* C10: a request whose method is not POST goes through RequestValidator
\* with no body read and nothing attached: the inner service is called
\* exactly once with the request as received, and its result is returned.
C10_NonPostBypasses ==
  \A r \in Requests : \A i \in Layers :
    ( /\ chain[i] = "Validator"
      /\ Entered(r, i)
      /\ Received(r, i).method # "POST" )
    => /\ EventsBy(r, i, "read") = <<>>
       /\ EventsBy(r, i, "read_failed") = <<>>
       /\ pc[r][i] # "reading"
       /\ EventsBy(r, i, "call") = << Ev("call", i, <<>>, 0, Received(r, i)) >>
       /\ pc[r][i] = "done" => res[r][i] = res[r][i + 1]

C10_Witness ==
  \E r \in Requests :
    /\ chain[1] = "Validator"
    /\ original[r].method = "PUT"
    /\ original[r].body.bytes = InvalidBody
    /\ pc[r][1] = "done"
    /\ res[r][1] = Ok(SuccessResponse)
    /\ EventsBy(r, 1, "call")[1].request = original[r]

\* C11: when to_bytes fails on the body of a POST request, RequestValidator
\* resolves to Ok with the protocol-level error (HTTP 200, id null, code
\* -32600) whose message is "Failed to read request body" whenever
\* create_response serialized it; it inserts nothing into the extensions and
\* the inner service is never called.
C11_ReadFailureAnswered ==
  \A r \in Requests : \A i \in Layers :
    ( /\ chain[i] = "Validator"
      /\ Received(r, i).method = "POST"
      /\ Len(EventsBy(r, i, "read_failed")) > 0 )
    => /\ pc[r][i] = "done"
       /\ res[r][i].ok
       /\ IsErrorEnvelope(res[r][i].response)
       /\ EventsBy(r, i, "answer") # <<>>
          => IsInvalidRequestResponse(res[r][i].response, "Failed to read request body")
       /\ EventsBy(r, i, "answer") = <<>>
          => /\ Len(EventsBy(r, i, "answer_literal")) = 1
             /\ res[r][i].response.body = FallbackLiteral
       /\ EventsBy(r, i, "insert_rpc") = <<>>
       /\ EventsBy(r, i, "insert_size") = <<>>
       /\ req[r].extensions = Received(r, i).extensions
       /\ EventsBy(r, i, "call") = <<>>
       /\ \A f \in (i + 1)..HandlerIdx : pc[r][f] = "idle"

C11_Witness ==
  \E r \in Requests : \E i \in Layers :
    /\ chain[i] = "Validator"
    /\ Received(r, i).method = "POST"
    /\ Len(EventsBy(r, i, "read_failed")) = 1
    /\ Len(EventsBy(r, i, "answer")) = 1
    /\ pc[r][i] = "done"
    /\ res[r][i].response.body = ErrorEnvelope("Failed to read request body")

\* The request of tests::test_valid_request sent through the full chain and
\* answered: its body was read and the outermost layer has resolved.
BlockNumberScenario(r) ==
  /\ chain = FullChain
  /\ original[r].method = "POST"
  /\ original[r].body.bytes = ValidBody(eth_blockNumber)
  /\ Len(EventsBy(r, 1, "read")) = 1
  /\ pc[r][1] = "done"

\* The size and latency samples of the scenario, and the handler's response
\* handed back as it is.
BlockNumberSamples(r, label) ==
  /\ Forwarded(r, 1) /\ Forwarded(r, 2) /\ Forwarded(r, 3)
  /\ size = SetToBag({ [label |-> label, value |-> Len(original[r].body.bytes)] })
  /\ latency = SetToBag({ label })
  /\ res[r][HandlerIdx].response \in HandlerResponses
  /\ \A i \in Layers : res[r][i] = res[r][HandlerIdx]

\* C12 (as claimed): the eth_blockNumber request passes the Validator, the
\* counter labelled eth_blockNumber increases by 1, the Histogram records one
\* size and one latency sample, and the handler's response comes back as it is.
C12_CounterLabelledAsSent ==
  \A r \in Requests :
    BlockNumberScenario(r)
    => /\ CopiesIn(eth_blockNumber, counter) = 1
       /\ BlockNumberSamples(r, to_lowercase(eth_blockNumber))

\* C12 (amended): as above, but the counter that increases by 1 is the one
\* labelled with the lower-cased method, eth_blocknumber; no counter labelled
\* eth_blockNumber exists.
C12_CounterLabelledLowercase ==
  \A r \in Requests :
    BlockNumberScenario(r)
    => /\ counter = SetToBag({ to_lowercase(eth_blockNumber) })
       /\ CopiesIn(eth_blockNumber, counter) = 0
       /\ to_lowercase(eth_blockNumber) # eth_blockNumber
       /\ BlockNumberSamples(r, to_lowercase(eth_blockNumber))

C12_Witness ==
  \E r \in Requests :
    /\ BlockNumberScenario(r)
    /\ res[r][1] = Ok(SuccessResponse)
    /\ SuccessResponse.status = 200
    /\ CopiesIn(to_lowercase(eth_blockNumber), counter) = 1

\* Layer i of request r took its fallback path and read bytes that do not
\* deserialize.
FallbackUndeserializable(r, i) ==
  /\ chain[i] \in { "Counter", "Histogram" }
  /\ ~IsSome(Received(r, i).extensions.rpc)
  /\ Len(EventsBy(r, i, "read")) = 1
  /\ ~IsSome(from_slice(EventsBy(r, i, "read")[1].request.body.bytes))

\* C13: a Counter or Histogram that finds no envelope attached and reads a
\* body that does not deserialize records nothing, calls the inner service
\* exactly once with the request it received and the same bytes as the body,
\* and returns the inner service's result.
C13_UndeserializableForwarded ==
  \A r \in Requests : \A i \in Layers :
    FallbackUndeserializable(r, i)
    => LET bytes == Received(r, i).body.bytes
       IN  /\ EventsBy(r, i, "counter") = <<>>
           /\ EventsBy(r, i, "size") = <<>>
           /\ EventsBy(r, i, "latency") = <<>>
           /\ local[r][i] = NoneV
           /\ pc[r][i] \in { "awaiting", "done" }
           /\ EventsBy(r, i, "call")
                = << Ev("call", i, <<>>, 0,
                        [ method |-> Received(r, i).method,
                          body |-> BodyFrom(bytes),
                          extensions |-> Received(r, i).extensions ]) >>
           /\ pc[r][i] = "done" => res[r][i] = res[r][i + 1]

C13_Witness ==
  \E r \in Requests : \E i \in Layers : \E j \in Layers :
    /\ chain[i] = "Counter" /\ chain[j] = "Histogram"
    /\ FallbackUndeserializable(r, i) /\ FallbackUndeserializable(r, j)
    /\ original[r].body.bytes = MalformedBody
    /\ pc[r][i] = "done" /\ pc[r][j] = "done"
    /\ res[r][i] = Ok(SuccessResponse)
    /\ counter = EmptyBag /\ size = EmptyBag /\ latency = EmptyBag

\* C14: when to_bytes fails on the fallback path of a Counter or a Histogram,
\* the layer resolves to Ok with the generic error response ("Failed to read
\* request body" whenever create_response serialized it), the inner service is
\* never called, and the request leaves no counter increment and no size or
\* latency sample.
C14_FallbackReadFailure ==
  \A r \in Requests : \A i \in Layers :
    ( /\ chain[i] \in { "Counter", "Histogram" }
      /\ Len(EventsBy(r, i, "read_failed")) > 0 )
    => /\ ~IsSome(Received(r, i).extensions.rpc)
       /\ pc[r][i] = "done"
       /\ res[r][i].ok
       /\ IsErrorEnvelope(res[r][i].response)
       /\ EventsBy(r, i, "answer") # <<>>
          => IsInvalidRequestResponse(res[r][i].response, "Failed to read request body")
       /\ EventsBy(r, i, "call") = <<>>
       /\ \A f \in (i + 1)..HandlerIdx : pc[r][f] = "idle"
       /\ EventsOf(r, { "counter", "size", "latency" }) = <<>>
       /\ local[r][i] = NoneV

C14_Witness ==
  \E r \in Requests : \E i \in Layers : \E k \in Layers :
    /\ chain[i] = "Histogram"
    /\ chain[k] = "Counter" /\ k > i
    /\ Len(EventsBy(r, i, "read_failed")) = 1
    /\ Len(EventsBy(r, i, "answer")) = 1
    /\ pc[r][i] = "done"
    /\ counter = EmptyBag /\ size = EmptyBag /\ latency = EmptyBag

\* Where in request r's record layer i's events of kind ev stand.
PositionsBy(r, i, ev) ==
  { k \in DOMAIN log[r] : log[r][k].ev = ev /\ log[r][k].layer = i }

\* Histogram layer i of request r has a method: from the attached envelope,
\* or from the bytes it read itself.
MethodDeterminable(r, i) ==
  /\ chain[i] = "Histogram"
  /\ \/ OnContextPath(r, i)
     \/ /\ OnFallbackPath(r, i)
        /\ IsSome(from_slice(EventsBy(r, i, "read")[1].request.body.bytes))

\* C15: a Histogram that has a method records the size sample before it calls
\* the inner service, and the latency sample only once the inner service has
\* resolved: none while it awaits, exactly one when it has resolved itself,
\* whatever the inner response is.
C15_SizeBeforeLatencyAfter ==
  \A r \in Requests : \A i \in Layers :
    MethodDeterminable(r, i)
    => /\ pc[r][i] \in { "awaiting", "done" }
       /\ Cardinality(PositionsBy(r, i, "size")) = 1
       /\ Cardinality(PositionsBy(r, i, "call")) = 1
       /\ \A s \in PositionsBy(r, i, "size") : \A c \in PositionsBy(r, i, "call") : s < c
       /\ \A l \in PositionsBy(r, i, "latency") :
            /\ pc[r][i + 1] = "done"
            /\ res[r][i + 1] # NoResult
            /\ \A c \in PositionsBy(r, i, "call") : c < l
       /\ pc[r][i] = "awaiting" => PositionsBy(r, i, "latency") = {}
       /\ pc[r][i] = "done"
          => /\ Cardinality(PositionsBy(r, i, "latency")) = 1
             /\ res[r][i] = res[r][i + 1]

C15_Witness ==
  \E r \in Requests : \E i \in Layers :
    /\ MethodDeterminable(r, i)
    /\ OnFallbackPath(r, i)
    /\ pc[r][i] = "done"
    /\ res[r][i + 1] = Ok(AppErrorResponse)
    /\ Cardinality(PositionsBy(r, i, "latency")) = 1

\* Validator layer i of request r went to read the body.
ReadAttempted(r, i) ==
  \/ pc[r][i] = "reading"
  \/ EventsBy(r, i, "read") # <<>>
  \/ EventsBy(r, i, "read_failed") # <<>>

\* C17 (as claimed): RequestValidator reads the body and tries to deserialize
\* it exactly for the requests whose method is POST, PUT, PATCH or DELETE, and
\* forwards the others unparsed.
C17_MutatingMethodsRead ==
  \A r \in Requests : \A i \in Layers :
    ( chain[i] = "Validator" /\ Entered(r, i) )
    => ( Received(r, i).method \in MutatingMethods <=> ReadAttempted(r, i) )

\* C17 (amended): RequestValidator reads the body and tries to deserialize it
\* exactly for the requests whose method is POST; every other method, PUT,
\* PATCH and DELETE included, is forwarded as received, unread and unparsed.
C17_OnlyPostRead ==
  \A r \in Requests : \A i \in Layers :
    ( chain[i] = "Validator" /\ Entered(r, i) )
    => /\ Received(r, i).method = "POST" <=> ReadAttempted(r, i)
       /\ EventsBy(r, i, "read") # <<>>
          => ( IsSome(from_slice(Received(r, i).body.bytes))
               <=> EventsBy(r, i, "insert_rpc") # <<>> )
       /\ Received(r, i).method # "POST"
          => /\ EventsBy(r, i, "call") = << Ev("call", i, <<>>, 0, Received(r, i)) >>
             /\ EventsBy(r, i, "insert_rpc") = <<>>

C17_Witness ==
  \E r \in Requests :
    /\ chain[1] = "Validator"
    /\ original[r].method = "DELETE"
    /\ original[r].body.bytes = InvalidBody
    /\ ~ReadAttempted(r, 1)
    /\ pc[r][1] = "done"
    /\ res[r][1] = Ok(SuccessResponse)
    /\ Received(r, 2) = original[r]

TerminalEvents == { "Request Succeeded", "Request Failed" }

\* The events of the given kinds that the trace layer logged for request r.
TraceEventsOf(r, kinds) == SelectSeq(trace[r].events, LAMBDA e : e \in kinds)

\* C18 (as claimed): per request the trace layer logs "Incoming request"
\* once and first, then "Body chunk" events, then exactly one of "Request
\* Succeeded" and "Request Failed": never both, never neither once the request
\* is finished, and no "Body chunk" after the terminal event.
C18_OneTerminalEventLast ==
  \A r \in Requests :
    LET events == trace[r].events
    IN  /\ Len(TraceEventsOf(r, { "Incoming request" })) <= 1
        /\ events # <<>> => events[1] = "Incoming request"
        /\ Len(TraceEventsOf(r, TerminalEvents)) <= 1
        /\ trace[r].st = "finished" => Len(TraceEventsOf(r, TerminalEvents)) = 1
        /\ \A k \in DOMAIN events : \A m \in DOMAIN events :
             ( k < m /\ events[k] \in TerminalEvents ) => events[m] # "Body chunk"

\* The Validator layers of the chain.
ValidatorLayers == { i \in Layers : chain[i] = "Validator" }

\* C19: the extensions are written once and read-only afterwards. Only a
\* RequestValidator inserts the envelope and the byte length, each at most
\* once per request and layer (once per request in a chain with one
\* Validator); what is inserted is the envelope and the length of the
\* original body; Counter and Histogram call the inner service with the
\* extensions they received; and once the envelope is attached, every later
\* call of the request carries the same extensions.
C19_ContextWriteOnce ==
  \A r \in Requests :
    /\ \A k \in DOMAIN log[r] :
         log[r][k].ev \in { "insert_rpc", "insert_size" }
         => log[r][k].layer \in ValidatorLayers
    /\ \A i \in ValidatorLayers :
         /\ Len(EventsBy(r, i, "insert_rpc")) <= 1
         /\ Len(EventsBy(r, i, "insert_size")) <= 1
         /\ EventsBy(r, i, "insert_rpc") # <<>>
            <=> ( /\ Received(r, i).method = "POST"
                  /\ Received(r, i + 1).extensions # NoExtensions )
    /\ Cardinality(ValidatorLayers) = 1
       => /\ Len(EventsOf(r, { "insert_rpc" })) <= 1
          /\ Len(EventsOf(r, { "insert_size" })) <= 1
    /\ \A i \in Layers :
         ( chain[i] \in { "Counter", "Histogram" } /\ Forwarded(r, i) )
         => Received(r, i + 1).extensions = Received(r, i).extensions
    /\ \A k \in DOMAIN log[r] : \A m \in DOMAIN log[r] :
         ( /\ k < m
           /\ log[r][k].ev = "call" /\ log[r][m].ev = "call"
           /\ log[r][k].request.extensions # NoExtensions )
         => log[r][m].request.extensions = log[r][k].request.extensions
    /\ \A k \in DOMAIN log[r] :
         ( log[r][k].ev = "call" /\ log[r][k].request.extensions # NoExtensions )
         => log[r][k].request.extensions
              = [ rpc |-> from_slice(original[r].body.bytes),
                  size |-> Some(Len(original[r].body.bytes)) ]

C19_Witness ==
  \E r \in Requests :
    /\ chain = FullChain
    /\ pc[r][1] = "done"
    /\ Len(EventsOf(r, { "insert_rpc" })) = 1
    /\ Len(EventsOf(r, { "insert_size" })) = 1
    /\ Received(r, 2).extensions # NoExtensions
    /\ Received(r, 4).extensions = Received(r, 2).extensions

\* Counter layer i of request r got hold of a well-formed envelope whose
\* lower-cased method is label, and went on.
CountedAt(r, i, label) ==
  /\ chain[i] = "Counter"
  /\ Forwarded(r, i)
  /\ LET parsed == from_slice(Received(r, i).body.bytes)
     IN  IsSome(parsed) /\ to_lowercase(Unwrap(parsed).method) = label

\* How many traversals of a Counter by a well-formed request with this
\* lower-cased method there have been.
Traversals(label) ==
  SumOver([r \in Requests |-> Cardinality({ i \in Layers : CountedAt(r, i, label) })],
          Requests)

AllCompleted == \A r \in Requests : phase[r] = "running" /\ pc[r][1] = "done"

\* C20: with several requests in flight and their steps interleaved in every
\* possible order, once all have completed the counter of each label holds
\* exactly the number of traversals of a Counter by a well-formed request
\* with that lower-cased method: nothing lost, nothing counted twice.
C20_CounterTotals ==
  AllCompleted
  => \A label \in Labels \cup BagToSet(counter) :
       CopiesIn(label, counter) = Traversals(label)

C20_Witness ==
  /\ AllCompleted
  /\ original[1].body.bytes = ValidBody(<< "e", "B" >>)
  /\ original[2].body.bytes = ValidBody(<< "e", "b" >>)
  /\ \A r \in Requests : Forwarded(r, Len(chain))
  /\ CopiesIn(<< "e", "b" >>, counter) = NumRequests

\* Request r is not a POST and its body is a well-formed envelope that layer
\* i, a Counter or a Histogram, has read.
NonPostWellFormed(r, i) ==
  /\ chain[i] \in { "Counter", "Histogram" }
  /\ original[r].method # "POST"
  /\ IsSome(from_slice(original[r].body.bytes))
  /\ Len(EventsBy(r, i, "read")) = 1

\* C21: Counter and Histogram do not look at the HTTP method. A request that
\* is not a POST reaches them with nothing attached, whatever Validators
\* stand in front; they read its body themselves, and when it is a
\* well-formed envelope they count it and sample it under the lower-cased
\* method with the length of the body, as they do for a validated POST.
C21_NonPostCounted ==
  \A r \in Requests : \A i \in Layers :
    /\ ( /\ chain[i] \in { "Counter", "Histogram" }
         /\ original[r].method # "POST"
         /\ Entered(r, i) )
       => /\ Received(r, i).method = original[r].method
          /\ Received(r, i).extensions = NoExtensions
          /\ \A j \in 1..(i - 1) : chain[j] = "Validator" => ~ReadAttempted(r, j)
          /\ ReadAttempted(r, i)
    /\ NonPostWellFormed(r, i)
       => LET bytes == original[r].body.bytes
              label == to_lowercase(Unwrap(from_slice(bytes)).method)
          IN  /\ Forwarded(r, i)
              /\ chain[i] = "Counter"
                 => EventsBy(r, i, "counter") = << Ev("counter", i, label, 1, NoRequest) >>
              /\ chain[i] = "Histogram"
                 => /\ EventsBy(r, i, "size")
                         = << Ev("size", i, label, Len(bytes), NoRequest) >>
                    /\ pc[r][i] = "done"
                       => EventsBy(r, i, "latency")
                            = << Ev("latency", i, label, 0, NoRequest) >>

C21_Witness ==
  \E r \in Requests :
    /\ chain = FullChain
    /\ original[r].method = "GET"
    /\ original[r].body.bytes = ValidBody(eth_blockNumber)
    /\ NonPostWellFormed(r, 2) /\ NonPostWellFormed(r, 3)
    /\ pc[r][1] = "done"
    /\ counter = SetToBag({ to_lowercase(eth_blockNumber) })
    /\ latency = SetToBag({ to_lowercase(eth_blockNumber) })
    /\ size = SetToBag({ [ label |-> to_lowercase(eth_blockNumber),
                           value |-> Len(ValidBody(eth_blockNumber)) ] })

\* C22: the size sample of a Histogram is the byte length of the request
\* body on both paths: the length the Validator attached is the length of the
\* bytes it forwards, which is what the fallback path measures on them; and a
\* Histogram that finds an envelope but no byte length attached records no
\* size sample, reads nothing, and records its latency sample under the
\* envelope's lower-cased method when the inner service has resolved.
C22_SizeIsBodyLength ==
  \A r \in Requests : \A i \in Layers :
    ( chain[i] = "Histogram" /\ Entered(r, i) )
    => LET received == Received(r, i)
           extensions == received.extensions
           bytes == original[r].body.bytes
       IN  /\ received.body.bytes = bytes
           /\ IsSome(extensions.size)
              => /\ IsSome(extensions.rpc)
                 /\ extensions.size = Some(Len(bytes))
                 /\ EventsBy(r, i, "size")
                      = << Ev("size", i, to_lowercase(Unwrap(extensions.rpc).method),
                              Len(bytes), NoRequest) >>
           /\ ( ~IsSome(extensions.rpc) /\ Forwarded(r, i) /\ IsSome(from_slice(bytes)) )
              => EventsBy(r, i, "size")
                   = << Ev("size", i, to_lowercase(Unwrap(from_slice(bytes)).method),
                           Len(bytes), NoRequest) >>
           /\ ( IsSome(extensions.rpc) /\ ~IsSome(extensions.size) )
              => /\ ~ReadAttempted(r, i)
                 /\ EventsBy(r, i, "size") = <<>>
                 /\ EventsBy(r, i, "call") = << Ev("call", i, <<>>, 0, received) >>
                 /\ pc[r][i] = "awaiting" => EventsBy(r, i, "latency") = <<>>
                 /\ pc[r][i] = "done"
                    => EventsBy(r, i, "latency")
                         = << Ev("latency", i, to_lowercase(Unwrap(extensions.rpc).method),
                                 0, NoRequest) >>

\* One request that meets a Histogram with an envelope and no byte length,
\* and then, behind a Validator, a Histogram with both.
C22_Witness ==
  \E r \in Requests :
    /\ chain = << "Histogram", "Validator", "Histogram" >>
    /\ original[r].method = "POST"
    /\ original[r].extensions = EnvelopeOnly
    /\ pc[r][1] = "done"
    /\ EventsBy(r, 1, "size") = <<>>
    /\ Len(EventsBy(r, 1, "latency")) = 1
    /\ size = SetToBag({ [ label |-> << "e", "b" >>,
                           value |-> Len(original[r].body.bytes) ] })
    /\ CopiesIn(<< "n" >>, latency) = 1 /\ CopiesIn(<< "e", "b" >>, latency) = 1

\* C23: RequestValidator reports ready by itself, so nothing behind a
\* Validator is ever polled; Counter and Histogram report what their inner
\* service reports; and every layer calls a clone of its inner service made
\* in call, never the instance that was polled, so every service behind the
\* outermost one is called without poll_ready having returned Ready on it.
C23_CalledWithoutReadiness ==
  /\ \A f \in Layers :
       chain[f] = "Validator"
       => /\ ready.polled[f] \in { "unpolled", "ready" }
          /\ \A g \in (f + 1)..HandlerIdx : ready.polled[g] = "unpolled"
  /\ \A f \in Layers :
       chain[f] \in { "Counter", "Histogram" }
       => /\ ready.polled[f] = "ready" => ready.polled[f + 1] = "ready"
          /\ ready.polled[f] = "pending" => ready.polled[f + 1] = "pending"
  /\ \A c \in ready.invoked :
       IF c.frame = 1
         THEN c.instance = "held" /\ c.polled
         ELSE c.instance = "clone" /\ ~c.polled

\* A call that went through the full chain down to the handler, which nobody
\* ever polled.
C23_Witness ==
  /\ chain = FullChain
  /\ ready.depth = HandlerIdx
  /\ [ frame |-> HandlerIdx, instance |-> "clone", polled |-> FALSE ] \in ready.invoked
  /\ \A g \in 2..HandlerIdx : ready.polled[g] = "unpolled"

=============================================================================
